---- MODULE Spec2Model ----
(***************************************************************************)
(* The replicationrule module of the PowerStore collection                 *)
(* (plugins/modules/replicationrule.py): one invocation of                 *)
(* PowerstoreReplicationRule.perform_module_operation against the array's  *)
(* management backend, step by step, and sequences of invocations against  *)
(* the same backend.                                                       *)
(*                                                                         *)
(* An optional value (a Python value that may be None) is a sequence of    *)
(* length at most one.  A rule name is a sequence of characters, so that   *)
(* str.strip() and the truth value of a string are computed.               *)
(***************************************************************************)
EXTENDS Integers, Sequences, FiniteSets, TLC

VARIABLES
    rules,             \* backend: the replication rules of the array
    nextId,            \* backend: the id the next created rule gets
    clusters,          \* backend: the cluster list of the array
    params,            \* self.module.params of the running invocation
    pc,                \* position in perform_module_operation
    remote_system_id,  \* local of perform_module_operation
    rep_rule_details,  \* local of perform_module_operation
    rep_rule_id,       \* local of perform_module_operation
    rep_rule_name,     \* local of perform_module_operation
    changed,           \* local of perform_module_operation
    outcome,           \* "running", "exit" (exit_json) or "fail" (fail_json)
    msg,               \* which fail_json message ended the invocation
    result,            \* result['replication_rule_details'] given to exit_json
    calls,             \* the backend calls of this invocation, in order
    rules0,            \* the rules when this invocation started
    previous,          \* how the invocation before this one, of the same request, ended
    invocations        \* number of invocations started

vars == <<rules, nextId, clusters, params, pc, remote_system_id, rep_rule_details,
          rep_rule_id, rep_rule_name, changed, outcome, msg, result, calls,
          rules0, previous, invocations>>

backendVars == <<rules, nextId, clusters>>

(***************************************************************************)
(* Bounds of the model.                                                    *)
(***************************************************************************)
MaxRules == 2
MaxInvocations == 2

(***************************************************************************)
(* Values.                                                                 *)
(***************************************************************************)
None == <<>>
Some(v) == <<v>>

AlertThresholdMax == 1440

\* the rpo choices the requests draw from, and one RPO in minutes
RpoChoices == {"Five_Minutes", "One_Hour"}
RpoMinutes(rpo) == IF rpo = "Five_Minutes" THEN 5 ELSE 60

RuleNames == {<<>>, <<" ">>, <<"A">>, <<"B">>}
NewNames == {<<"B">>}
RuleIds == 1..MaxRules
AlertThresholds == {0, 1441}

\* the remote systems paired with the array: two share the name RS1
RemoteSystems ==
    { [id |-> "r1", name |-> "RS1", address |-> "a1"],
      [id |-> "r2", name |-> "RS1", address |-> "a2"],
      [id |-> "r3", name |-> "RS2", address |-> "a3"] }
RemoteSystemTokens == {"RS1", "RS2", "RS0", "r1", "r9"}
RemoteSystemAddresses == {"a1", "a9"}

Opt(S) == {None} \cup {Some(v) : v \in S}

\* the parameter sets AnsibleModule accepts: one of name and id, never both
Requests ==
    { p \in [ replication_rule_name : Opt(RuleNames),
              replication_rule_id : Opt(RuleIds),
              new_name : Opt(NewNames),
              rpo : Opt(RpoChoices),
              alert_threshold : Opt(AlertThresholds),
              remote_system : Opt(RemoteSystemTokens),
              remote_system_address : Opt(RemoteSystemAddresses),
              state : {"present", "absent"} ] :
        /\ (p.replication_rule_name = None) # (p.replication_rule_id = None)
        /\ (p.remote_system \notin {Some("RS1"), Some("RS2")}
                => p.remote_system_address = None) }

\* str.strip()
RECURSIVE lstrip(_)
lstrip(s) == IF s # <<>> /\ Head(s) = " " THEN lstrip(Tail(s)) ELSE s
RECURSIVE rstrip(_)
rstrip(s) == IF s # <<>> /\ s[Len(s)] = " " THEN rstrip(SubSeq(s, 1, Len(s) - 1)) ELSE s
strip(s) == rstrip(lstrip(s))

\* the truth value of an optional rule name: neither None nor ''
TruthyName(o) == o # None /\ o[1] # <<>>
\* the truth value of any other optional value of the model
Truthy(o) == o # None

(***************************************************************************)
(* The backend, as the SDK client shows it: a call returns a value or      *)
(* raises.  Any call may raise an error that is not a 404.                 *)
(***************************************************************************)
Http404 == [ps |-> TRUE, err_code |-> "HTTP_ERR", status_code |-> "404"]
Http400 == [ps |-> TRUE, err_code |-> "HTTP_ERR", status_code |-> "400"]
Http500 == [ps |-> TRUE, err_code |-> "HTTP_ERR", status_code |-> "500"]
OtherError == [ps |-> FALSE, err_code |-> "NONE", status_code |-> "NONE"]
Faults == {Http500, OtherError}

Ok(v) == [err |-> None, val |-> Some(v)]
Raise(e) == [err |-> Some(e), val |-> None]
Raises(E) == {Raise(e) : e \in E}

\* an entry of the call log
Call(op, resp, alert) ==
    [op |-> op,
     res |-> IF resp.err = None THEN "ok" ELSE resp.err[1].status_code,
     alert |-> alert]

MutatingOps == {"create_replication_rule", "modify_replication_rule",
                "delete_replication_rule"}

\* provisioning.get_cluster_list()
provisioning_get_cluster_list == {Ok(clusters)} \cup Raises(Faults)

\* protection.get_remote_system_by_name(name, address)
protection_get_remote_system_by_name(name, address) ==
    {Ok({s \in RemoteSystems :
            /\ s.name = name
            /\ (address # None => s.address = address[1])})}
        \cup Raises(Faults)

\* protection.get_remote_system_details(id)
protection_get_remote_system_details(id) ==
    (IF \E s \in RemoteSystems : s.id = id
        THEN {Ok(CHOOSE s \in RemoteSystems : s.id = id)}
        ELSE {Raise(Http404)})
        \cup Raises(Faults)

\* protection.get_replication_rule_by_name(name)
protection_get_replication_rule_by_name(name) ==
    {Ok({r \in rules : r.name = name})} \cup Raises(Faults)

\* protection.get_replication_rule_details(id) on the rules rs: id is optional
protection_get_replication_rule_details(rs, id) ==
    (IF id # None /\ \E r \in rs : r.id = id[1]
        THEN {Ok(CHOOSE r \in rs : r.id = id[1])}
        ELSE {Raise(Http404)})
        \cup Raises(Faults)

\* what the array refuses in a create or modify payload
InvalidAlertThreshold(alert) ==
    alert # None /\ (alert[1] < 0 \/ alert[1] > AlertThresholdMax)
InvalidName(name) == name # None /\ strip(name[1]) = <<>>

\* a response of a mutating call: the value returned and the backend after it
Applied(v, rs, nid) == [err |-> None, val |-> Some(v), rules |-> rs, nextId |-> nid]
Refused(e) == [err |-> Some(e), val |-> None, rules |-> rules, nextId |-> nextId]

\* protection.create_replication_rule(name, rpo, remote_system_id, alert_threshold)
protection_create_replication_rule(name, rpo, rsid, alert) ==
    IF \/ name = None \/ InvalidName(name) \/ rpo = None \/ rsid = None
       \/ InvalidAlertThreshold(alert)
       \/ \E r \in rules : r.name = name[1]
       \/ nextId > MaxRules
    THEN {Refused(Http400)}
    ELSE {Applied([id |-> nextId],
                  rules \cup {[id |-> nextId,
                               name |-> name[1],
                               rpo |-> rpo[1],
                               alert_threshold |->
                                   IF alert = None THEN RpoMinutes(rpo[1]) ELSE alert[1],
                               remote_system_id |-> rsid[1]]},
                  nextId + 1)}
         \cup {Refused(e) : e \in Faults}

\* protection.modify_replication_rule(replication_rule_id, name, rpo,
\* remote_system_id, alert_threshold): the fields that are not None are set; the
\* call returns the rule or nothing
protection_modify_replication_rule(id, name, rpo, rsid, alert) ==
    IF id = None \/ ~\E r \in rules : r.id = id[1]
    THEN {Refused(Http404)}
    ELSE IF \/ InvalidName(name) \/ InvalidAlertThreshold(alert)
            \/ (name # None /\ \E r \in rules : r.name = name[1] /\ r.id # id[1])
    THEN {Refused(Http400)}
    ELSE LET old == CHOOSE r \in rules : r.id = id[1]
             new == [id |-> old.id,
                     name |-> IF name = None THEN old.name ELSE name[1],
                     rpo |-> IF rpo = None THEN old.rpo ELSE rpo[1],
                     alert_threshold |->
                         IF alert = None THEN old.alert_threshold ELSE alert[1],
                     remote_system_id |->
                         IF rsid = None THEN old.remote_system_id ELSE rsid[1]]
             rs == (rules \ {old}) \cup {new}
         IN  {Applied(Some(new), rs, nextId), Applied(None, rs, nextId)}
             \cup {Refused(e) : e \in Faults}

\* protection.delete_replication_rule(id)
protection_delete_replication_rule(id) ==
    IF id = None \/ ~\E r \in rules : r.id = id[1]
    THEN {Refused(Http404)}
    ELSE {Applied(None, {r \in rules : r.id # id[1]}, nextId)}
         \cup {Refused(e) : e \in Faults}

(***************************************************************************)
(* The methods of PowerstoreReplicationRule.  A method yields the set of   *)
(* ways it can end: it returns val, or it ends the invocation in           *)
(* fail_json(msg); calls are the backend calls it made.                    *)
(***************************************************************************)
Ret(v, cs) == [failed |-> FALSE, msg |-> "", val |-> v, calls |-> cs]
Fail(m, cs) == [failed |-> TRUE, msg |-> m, val |-> None, calls |-> cs]

\* IsNotFound without the test of the status code
IsNotFound_AnyHttpError(e) == e.ps /\ e.err_code = "HTTP_ERR"

\* the 404 test of the except clause of get_replication_rule_details
IsNotFound(e) == e.ps /\ e.err_code = "HTTP_ERR" /\ e.status_code = "404"

\* the except clause of get_replication_rule_details
RuleLookupExcept(e, cs) ==
    IF IsNotFound(e) THEN Ret(None, cs) ELSE Fail("get_rule_failed", cs)

\* get_replication_rule_details(rep_rule_name, rep_rule_id)
get_replication_rule_details(name, id) ==
    IF TruthyName(name)
    THEN UNION {
        LET c1 == <<Call("get_replication_rule_by_name", resp, None)>>
        IN  IF resp.err # None THEN {RuleLookupExcept(resp.err[1], c1)}
            ELSE IF resp.val[1] # {}
            THEN UNION {
                { LET cs == c1 \o <<Call("get_replication_rule_details", d, None)>>
                  IN  IF d.err # None THEN RuleLookupExcept(d.err[1], cs)
                      ELSE Ret(d.val, cs)
                  : d \in protection_get_replication_rule_details(rules, Some(r.id)) }
                : r \in resp.val[1] }
            ELSE {Ret(None, c1)}
        : resp \in protection_get_replication_rule_by_name(name[1]) }
    ELSE { LET cs == <<Call("get_replication_rule_details", d, None)>>
           IN  IF d.err # None THEN RuleLookupExcept(d.err[1], cs)
               ELSE Ret(d.val, cs)
           : d \in protection_get_replication_rule_details(rules, id) }

\* utils.name_or_id: a token in the format of an id is an id
IdFormat == {"r1", "r2", "r3", "r9"}
name_or_id(token) == IF token \in IdFormat THEN "ID" ELSE "NAME"

\* UniqueMatch testing only that the lookup gave something
UniqueMatch_AnyMatch(resp) == resp # {}

\* the test that a lookup by name gave one remote system
UniqueMatch(resp) == Cardinality(resp) = 1

\* get_remote_system_details(remote_system, remote_system_address)
get_remote_system_details(remote_system, remote_system_address) ==
    LET remote_system_name ==
            IF remote_system # None /\ name_or_id(remote_system[1]) = "NAME"
            THEN remote_system ELSE None
        rsid ==
            IF remote_system # None /\ name_or_id(remote_system[1]) # "NAME"
            THEN remote_system ELSE None
    IN  IF Truthy(remote_system_name)
        THEN UNION {
            LET c1 == <<Call("get_remote_system_by_name", resp, None)>>
            IN  IF resp.err # None THEN {Fail("get_remote_system_failed", c1)}
                ELSE IF resp.val[1] # {} /\ UniqueMatch(resp.val[1])
                THEN {Ret(Some(s), c1) : s \in resp.val[1]}
                ELSE IF resp.val[1] # {} /\ Cardinality(resp.val[1]) > 1
                THEN IF ~Truthy(remote_system_address)
                     THEN {Fail("remote_system_ambiguous", c1)}
                     ELSE UNION {
                         LET cs == c1 \o <<Call("get_remote_system_by_name", scoped, None)>>
                         IN  IF scoped.err # None
                             THEN {Fail("get_remote_system_failed", cs)}
                             ELSE IF UniqueMatch(scoped.val[1])
                             THEN {Ret(Some(s), cs) : s \in scoped.val[1]}
                             ELSE {Fail("remote_system_not_found", cs)}
                         : scoped \in protection_get_remote_system_by_name(
                                          remote_system_name[1], remote_system_address) }
                ELSE {Fail("remote_system_not_found", c1)}
            : resp \in protection_get_remote_system_by_name(remote_system_name[1], None) }
        ELSE IF Truthy(rsid)
        THEN { LET cs == <<Call("get_remote_system_details", d, None)>>
               IN  IF d.err # None THEN Fail("get_remote_system_failed", cs)
                   ELSE Ret(d.val, cs)
               : d \in protection_get_remote_system_details(rsid[1]) }
        ELSE {Ret(None, <<>>)}

\* get_clusters()
get_clusters ==
    { LET cs == <<Call("get_cluster_list", resp, None)>>
      IN  IF resp.err # None THEN Fail("get_clusters_failed", cs)
          ELSE Ret(resp.val, cs)
      : resp \in provisioning_get_cluster_list }

\* a way a mutating method can end: as above, with the backend it leaves
Mut(o, rs, nid) ==
    [failed |-> o.failed, msg |-> o.msg, val |-> o.val, calls |-> o.calls,
     rules |-> rs, nextId |-> nid]

\* CreateArgs with one rpo whatever the parameter
CreateArgs_FixedRpo(name, rpo, rsid, alert) ==
    [name |-> name, rpo |-> Some("Five_Minutes"), remote_system_id |-> rsid,
     alert_threshold |-> alert]

\* the keyword arguments create_replication_rule gives the backend
CreateArgs(name, rpo, rsid, alert) ==
    [name |-> name, rpo |-> rpo, remote_system_id |-> rsid, alert_threshold |-> alert]

\* RpoMissing letting every rpo through
RpoMissing_Never(rpo) == FALSE

\* "if not rpo" of create_replication_rule
RpoMissing(rpo) == ~Truthy(rpo)

\* create_replication_rule(rep_rule_name, rpo, remote_system_id, alert_threshold):
\* the backend create, then the new rule fetched by the id the create returned
create_replication_rule(name, rpo, rsid, alert) ==
    IF RpoMissing(rpo)
    THEN {Mut(Fail("rpo_required", <<>>), rules, nextId)}
    ELSE UNION {
        LET a == CreateArgs(name, rpo, rsid, alert)
            c1 == <<Call("create_replication_rule", resp, a.alert_threshold)>>
        IN  IF resp.err # None
            THEN {Mut(Fail("create_failed", c1), resp.rules, resp.nextId)}
            ELSE { LET cs == c1 \o <<Call("get_replication_rule_details", d, None)>>
                   IN  IF d.err # None
                       THEN Mut(Fail("create_failed", cs), resp.rules, resp.nextId)
                       ELSE Mut(Ret(d.val, cs), resp.rules, resp.nextId)
                   : d \in protection_get_replication_rule_details(
                               resp.rules, Some(resp.val[1].id)) }
        : resp \in LET a == CreateArgs(name, rpo, rsid, alert)
                   IN  protection_create_replication_rule(
                           a.name, a.rpo, a.remote_system_id, a.alert_threshold) }

\* the keyword arguments modify_replication_rule gives the backend
ModifyArgs(new_name, rpo, rsid, alert) ==
    [name |-> new_name, rpo |-> rpo, remote_system_id |-> rsid, alert_threshold |-> alert]

\* modify_replication_rule(rep_rule_id, new_name, rpo, remote_system_id,
\* alert_threshold): val is what the backend call returned
modify_replication_rule(id, new_name, rpo, rsid, alert) ==
    LET a == ModifyArgs(new_name, rpo, rsid, alert)
    IN  { LET cs == <<Call("modify_replication_rule", resp, a.alert_threshold)>>
          IN  IF resp.err # None
              THEN Mut(Fail("modify_failed", cs), resp.rules, resp.nextId)
              ELSE Mut(Ret(resp.val[1], cs), resp.rules, resp.nextId)
          : resp \in protection_modify_replication_rule(
                         id, a.name, a.rpo, a.remote_system_id, a.alert_threshold) }

\* delete_replication_rule(rep_rule_id)
delete_replication_rule(id) ==
    { LET cs == <<Call("delete_replication_rule", resp, None)>>
      IN  IF resp.err # None
          THEN Mut(Fail("delete_failed", cs), resp.rules, resp.nextId)
          ELSE Mut(Ret(None, cs), resp.rules, resp.nextId)
      : resp \in protection_delete_replication_rule(id) }

\* modify_replication_rule_required without the comparison of the values
modify_required_when_passed(details, passed_args) ==
    \E key \in DOMAIN details :
        /\ key \in DOMAIN passed_args
        /\ passed_args[key] # None

\* modify_replication_rule_required passing over alert_threshold
modify_required_skips_alert_threshold(details, passed_args) ==
    \E key \in DOMAIN details \ {"alert_threshold"} :
        /\ key \in DOMAIN passed_args
        /\ passed_args[key] # None
        /\ details[key] # passed_args[key][1]

\* modify_replication_rule_required(rep_rule_details, passed_args)
modify_replication_rule_required(details, passed_args) ==
    \E key \in DOMAIN details :
        /\ key \in DOMAIN passed_args
        /\ passed_args[key] # None
        /\ details[key] # passed_args[key][1]

\* show_output(rep_rule_id, remote_system_address): the rule fetched again by
\* id, with the name of its remote system
show_output(id, remote_system_address) ==
    UNION {
        IF o.failed THEN {o}
        ELSE IF o.val = None THEN {Fail("uncaught_exception", o.calls)}
        ELSE { IF n.failed THEN Fail(n.msg, o.calls \o n.calls)
               ELSE IF n.val = None THEN Fail("uncaught_exception", o.calls \o n.calls)
               ELSE Ret(Some([id |-> o.val[1].id,
                              name |-> o.val[1].name,
                              rpo |-> o.val[1].rpo,
                              alert_threshold |-> o.val[1].alert_threshold,
                              remote_system_id |-> o.val[1].remote_system_id,
                              remote_system_name |-> n.val[1].name]),
                        o.calls \o n.calls)
               : n \in get_remote_system_details(
                           Some(o.val[1].remote_system_id), remote_system_address) }
        : o \in get_replication_rule_details(None, id) }

(***************************************************************************)
(* perform_module_operation, one action per block of it.                   *)
(***************************************************************************)
invocationVars == <<params, rules0, previous, invocations>>

\* fail_json(msg)
fail_json(m) == pc' = "done" /\ outcome' = "fail" /\ msg' = m
\* control goes on to the block at label
Goto(label) == pc' = label /\ UNCHANGED <<outcome, msg>>

\* NameIsInvalid without strip()
NameIsInvalid_NoStrip(name) == name = None \/ name[1] = <<>>
\* DeleteRequired without the test that a rule was found
DeleteRequired_StateOnly(details, state) == state = "absent"
\* DeleteRequired without the test of state
DeleteRequired_IgnoresState(details, state) == Truthy(details)

\* the conditions of the blocks
CreateRequired(details, state) == ~Truthy(details) /\ state = "present"
NameIsInvalid(name) == name = None \/ strip(name[1]) = <<>>
DeleteRequired(details, state) == Truthy(details) /\ state = "absent"
UpdateRequired(details, state) == Truthy(details) /\ state = "present"
ShowRequired(details, state) == state = "present" /\ Truthy(details)

\* clusters = self.get_clusters(), and the test that there is one
GetClusters ==
    /\ pc = "get_clusters"
    /\ \E o \in get_clusters :
        /\ calls' = calls \o o.calls
        /\ IF o.failed THEN fail_json(o.msg)
           ELSE IF Cardinality(o.val[1]) > 0 THEN Goto("fetch_remote_system")
           ELSE fail_json("no_cluster")
    /\ UNCHANGED <<backendVars, invocationVars, remote_system_id, rep_rule_details,
                   rep_rule_id, rep_rule_name, changed, result>>

\* "Fetch remote system id if passed"
FetchRemoteSystem ==
    /\ pc = "fetch_remote_system"
    /\ IF Truthy(params.remote_system)
       THEN \E o \in get_remote_system_details(params.remote_system,
                                               params.remote_system_address) :
            /\ calls' = calls \o o.calls
            /\ IF o.failed
               THEN fail_json(o.msg) /\ UNCHANGED remote_system_id
               ELSE /\ Goto("get_rule")
                    /\ remote_system_id' =
                           IF Truthy(o.val) THEN Some(o.val[1].id) ELSE None
       ELSE Goto("get_rule") /\ UNCHANGED <<calls, remote_system_id>>
    /\ UNCHANGED <<backendVars, invocationVars, rep_rule_details, rep_rule_id,
                   rep_rule_name, changed, result>>

\* "Get the details of the replication rule", and the id and the name taken
\* from them
GetRule ==
    /\ pc = "get_rule"
    /\ \E o \in get_replication_rule_details(rep_rule_name, rep_rule_id) :
        /\ calls' = calls \o o.calls
        /\ IF o.failed
           THEN fail_json(o.msg)
                /\ UNCHANGED <<rep_rule_details, rep_rule_id, rep_rule_name>>
           ELSE /\ Goto("create")
                /\ rep_rule_details' = o.val
                /\ rep_rule_id' =
                       IF Truthy(o.val) /\ ~Truthy(rep_rule_id)
                       THEN Some(o.val[1].id) ELSE rep_rule_id
                /\ rep_rule_name' =
                       IF Truthy(o.val) /\ ~TruthyName(rep_rule_name)
                       THEN Some(o.val[1].name) ELSE rep_rule_name
    /\ UNCHANGED <<backendVars, invocationVars, remote_system_id, changed, result>>

\* "Create a replication rule"
CreateBlock ==
    /\ pc = "create"
    /\ IF CreateRequired(rep_rule_details, params.state)
       THEN IF Truthy(rep_rule_id)
            THEN fail_json("create_with_id")
                 /\ UNCHANGED <<rules, nextId, calls, rep_rule_details, rep_rule_id, changed>>
            ELSE IF NameIsInvalid(rep_rule_name)
            THEN fail_json("invalid_name")
                 /\ UNCHANGED <<rules, nextId, calls, rep_rule_details, rep_rule_id, changed>>
            ELSE IF ~Truthy(params.remote_system)
            THEN fail_json("remote_system_required")
                 /\ UNCHANGED <<rules, nextId, calls, rep_rule_details, rep_rule_id, changed>>
            ELSE IF params.new_name # None
            THEN fail_json("new_name_at_creation")
                 /\ UNCHANGED <<rules, nextId, calls, rep_rule_details, rep_rule_id, changed>>
            ELSE \E o \in create_replication_rule(rep_rule_name, params.rpo,
                                                  remote_system_id,
                                                  params.alert_threshold) :
                 /\ calls' = calls \o o.calls
                 /\ rules' = o.rules
                 /\ nextId' = o.nextId
                 /\ IF o.failed
                    THEN fail_json(o.msg)
                         /\ UNCHANGED <<rep_rule_details, rep_rule_id, changed>>
                    ELSE /\ Goto("delete")
                         /\ changed' = TRUE
                         /\ rep_rule_details' = o.val
                         /\ rep_rule_id' = Some(o.val[1].id)
       ELSE Goto("delete")
            /\ UNCHANGED <<rules, nextId, calls, rep_rule_details, rep_rule_id, changed>>
    /\ UNCHANGED <<clusters, invocationVars, remote_system_id, rep_rule_name, result>>

\* delete_replication_rule returning nothing
DeleteReturns_Nothing == FALSE

\* "return True" of delete_replication_rule, which the block assigns to changed
DeleteReturns == TRUE

\* "Delete a replication rule"
DeleteBlock ==
    /\ pc = "delete"
    /\ IF DeleteRequired(rep_rule_details, params.state)
       THEN \E o \in delete_replication_rule(rep_rule_id) :
            /\ calls' = calls \o o.calls
            /\ rules' = o.rules
            /\ nextId' = o.nextId
            /\ IF o.failed
               THEN fail_json(o.msg) /\ UNCHANGED <<rep_rule_details, changed>>
               ELSE /\ Goto("update")
                    /\ changed' = DeleteReturns
                    /\ rep_rule_details' = None
       ELSE Goto("update")
            /\ UNCHANGED <<rules, nextId, calls, rep_rule_details, changed>>
    /\ UNCHANGED <<clusters, invocationVars, remote_system_id, rep_rule_id,
                   rep_rule_name, result>>

\* new_rep_rule_dict
NewRepRuleDict(details, new_name, rpo, rsid, alert) ==
    [name |-> IF new_name # None THEN new_name ELSE Some(details.name),
     rpo |-> rpo,
     remote_system_id |-> rsid,
     alert_threshold |-> alert]

\* "Update the details of replication rule"
UpdateBlock ==
    /\ pc = "update"
    /\ IF /\ UpdateRequired(rep_rule_details, params.state)
          /\ modify_replication_rule_required(
                 rep_rule_details[1],
                 NewRepRuleDict(rep_rule_details[1], params.new_name, params.rpo,
                                remote_system_id, params.alert_threshold))
       THEN \E o \in modify_replication_rule(rep_rule_id, params.new_name, params.rpo,
                                             remote_system_id, params.alert_threshold) :
            /\ calls' = calls \o o.calls
            /\ rules' = o.rules
            /\ nextId' = o.nextId
            /\ IF o.failed
               THEN fail_json(o.msg) /\ UNCHANGED <<rep_rule_details, changed>>
               ELSE /\ Goto("show_output")
                    /\ changed' = TRUE
                    /\ rep_rule_details' = o.val
       ELSE Goto("show_output")
            /\ UNCHANGED <<rules, nextId, calls, rep_rule_details, changed>>
    /\ UNCHANGED <<clusters, invocationVars, remote_system_id, rep_rule_id,
                   rep_rule_name, result>>

\* the call of show_output, and exit_json(**result)
ShowOutputAndExit ==
    /\ pc = "show_output"
    /\ IF ShowRequired(rep_rule_details, params.state)
       THEN \E o \in show_output(rep_rule_id, params.remote_system_address) :
            /\ calls' = calls \o o.calls
            /\ IF o.failed
               THEN fail_json(o.msg) /\ UNCHANGED <<rep_rule_details, result>>
               ELSE /\ pc' = "done" /\ outcome' = "exit" /\ UNCHANGED msg
                    /\ rep_rule_details' = o.val
                    /\ result' = o.val
       ELSE /\ pc' = "done" /\ outcome' = "exit" /\ UNCHANGED msg
            /\ result' = rep_rule_details
            /\ UNCHANGED <<calls, rep_rule_details>>
    /\ UNCHANGED <<backendVars, invocationVars, remote_system_id, rep_rule_id,
                   rep_rule_name, changed>>

NoPrevious == [outcome |-> "none", changed |-> FALSE]

\* main() again: a new module object for the same parameters, against the
\* backend as the invocation before left it
NewInvocation ==
    /\ pc = "done"
    /\ invocations < MaxInvocations
    /\ invocations' = invocations + 1
    /\ previous' = [outcome |-> outcome, changed |-> changed]
    /\ rules0' = rules
    /\ pc' = "get_clusters"
    /\ remote_system_id' = None
    /\ rep_rule_details' = None
    /\ rep_rule_id' = params.replication_rule_id
    /\ rep_rule_name' = params.replication_rule_name
    /\ changed' = FALSE
    /\ outcome' = "running"
    /\ msg' = ""
    /\ result' = None
    /\ calls' = <<>>
    /\ UNCHANGED <<backendVars, params>>

\* the rules an array may hold before the first invocation
RuleA == [id |-> 1, name |-> <<"A">>, rpo |-> "Five_Minutes", alert_threshold |-> 5,
          remote_system_id |-> "r1"]
RuleB == [id |-> 2, name |-> <<"B">>, rpo |-> "One_Hour", alert_threshold |-> 0,
          remote_system_id |-> "r3"]
InitialRules == { {}, {RuleA}, {RuleA, RuleB} }

Init ==
    /\ rules \in InitialRules
    /\ nextId = Cardinality(rules) + 1
    /\ clusters \in {{}, {"cluster"}}
    /\ params \in Requests
    /\ rules0 = rules
    /\ previous = NoPrevious
    /\ invocations = 1
    /\ pc = "get_clusters"
    /\ remote_system_id = None
    /\ rep_rule_details = None
    /\ rep_rule_id = params.replication_rule_id
    /\ rep_rule_name = params.replication_rule_name
    /\ changed = FALSE
    /\ outcome = "running"
    /\ msg = ""
    /\ result = None
    /\ calls = <<>>

Next ==
    \/ GetClusters
    \/ FetchRemoteSystem
    \/ GetRule
    \/ CreateBlock
    \/ DeleteBlock
    \/ UpdateBlock
    \/ ShowOutputAndExit
    \/ NewInvocation

Spec == Init /\ [][Next]_vars

(***************************************************************************)
(* What the properties speak of.                                           *)
(***************************************************************************)
CallIndexes(ops) == {i \in 1..Len(calls) : calls[i].op \in ops}
MutatingCalls == CallIndexes(MutatingOps)
\* a backend call of this invocation raised an error the backend is not bound to raise
Faulted == \E i \in 1..Len(calls) : calls[i].res \in {"500", "NONE"}
\* the backend refused the payload of a call of this invocation
Refused400 == \E i \in 1..Len(calls) : calls[i].res = "400"

\* the rules of rs the parameters p address, by name or else by id
Addressed(rs, p) ==
    {r \in rs :
        IF TruthyName(p.replication_rule_name)
        THEN r.name = p.replication_rule_name[1]
        ELSE p.replication_rule_id # None /\ r.id = p.replication_rule_id[1]}

BlankName(p) ==
    p.replication_rule_name # None /\ strip(p.replication_rule_name[1]) = <<>>

LookupFailures ==
    {"no_cluster", "get_clusters_failed", "get_remote_system_failed",
     "remote_system_ambiguous", "remote_system_not_found", "get_rule_failed"}

\* the request renames a rule it addresses by name
RenamesByName(p) ==
    /\ p.new_name # None
    /\ p.replication_rule_name # None
    /\ p.new_name # p.replication_rule_name

\* C1 as claimed: after a successful state=present invocation, the same request
\* invoked again, for any combination of parameters, succeeds with changed=false
\* and issues no create, modify or delete call.
C1_IdempotentForAnyRequest ==
    (params.state = "present" /\ previous.outcome = "exit")
        => /\ MutatingCalls = {}
           /\ (pc = "done" /\ ~Faulted => outcome = "exit" /\ changed = FALSE)

\* C1 as amended: after a successful state=present invocation of a request that
\* does not rename a rule addressed by name, the same request invoked again
\* issues no create, modify or delete call, leaves the rules as they are, and,
\* unless a backend call raises, succeeds with changed=false.
C1_IdempotentPresent ==
    (params.state = "present" /\ previous.outcome = "exit" /\ ~RenamesByName(params))
        => /\ MutatingCalls = {}
           /\ rules = rules0
           /\ (outcome = "exit" => changed = FALSE)
           /\ (pc = "done" /\ ~Faulted => outcome = "exit")

\* a request that changed a rule, invoked again, ended with changed=false
C1_Witness ==
    /\ pc = "done" /\ params.state = "present" /\ ~RenamesByName(params)
    /\ previous.outcome = "exit" /\ previous.changed
    /\ outcome = "exit" /\ changed = FALSE

\* C2: a state=absent invocation that addresses no rule issues no create, modify
\* or delete call, fails only in a lookup, and when it exits reports changed=false
\* and no details; and a state=absent request invoked again after it succeeded
\* exits with changed=false unless a backend call raises.
C2_DeleteIdempotent ==
    /\ (params.state = "absent" /\ Addressed(rules0, params) = {})
        => /\ MutatingCalls = {}
           /\ rules = rules0
           /\ (outcome = "exit" => changed = FALSE /\ result = None)
           /\ (outcome = "fail" => msg \in LookupFailures)
           /\ (msg = "get_rule_failed" => Faulted)
    /\ (params.state = "absent" /\ previous.outcome = "exit")
        => /\ Addressed(rules0, params) = {}
           /\ (pc = "done" /\ ~Faulted => outcome = "exit" /\ changed = FALSE)

\* a deletion, invoked again, ended with changed=false
C2_Witness ==
    /\ pc = "done" /\ params.state = "absent"
    /\ previous.outcome = "exit" /\ previous.changed
    /\ outcome = "exit" /\ changed = FALSE /\ result = None /\ MutatingCalls = {}

NameMatches(p) == {s \in RemoteSystems : s.name = p.remote_system[1]}
AddressMatches(p) ==
    {s \in NameMatches(p) :
        p.remote_system_address # None /\ s.address = p.remote_system_address[1]}

\* some desired field of p is given and differs from the rule cur, with rsid the
\* id remote_system resolved to
DesiredDiffers(cur, p, rsid) ==
    \/ p.new_name # None /\ p.new_name[1] # cur.name
    \/ p.rpo # None /\ p.rpo[1] # cur.rpo
    \/ rsid # None /\ rsid[1] # cur.remote_system_id
    \/ p.alert_threshold # None /\ p.alert_threshold[1] # cur.alert_threshold

\* C4: for a rule that exists and state=present, a modify call is issued exactly
\* when a desired field (new_name, rpo, the resolved remote system id,
\* alert_threshold) is given and differs from the rule's value, and the
\* invocation that exits reports changed=true exactly then.
C4_DiffCorrect ==
    (params.state = "present" /\ Addressed(rules0, params) # {})
        => \A cur \in Addressed(rules0, params) :
            /\ CallIndexes({"create_replication_rule",
                            "delete_replication_rule"}) = {}
            /\ (CallIndexes({"modify_replication_rule"}) # {}
                    => DesiredDiffers(cur, params, remote_system_id))
            /\ (pc = "show_output" \/ outcome = "exit")
                    => /\ (CallIndexes({"modify_replication_rule"}) # {}
                              <=> DesiredDiffers(cur, params, remote_system_id))
                       /\ (changed <=> DesiredDiffers(cur, params, remote_system_id))
                       /\ (~changed => rules = rules0)

\* an alert_threshold of 0 that differs from the rule's was written by a modify
C4_Witness ==
    /\ outcome = "exit" /\ params.state = "present" /\ changed
    /\ params.alert_threshold = Some(0) /\ params.rpo = None
    /\ params.new_name = None /\ params.remote_system = None
    /\ \E cur \in Addressed(rules0, params) : cur.alert_threshold # 0
    /\ CallIndexes({"modify_replication_rule"}) # {}

\* the request is one a rule is created for: a name that is not blank and that no
\* rule has, an rpo, no new_name, and a remote_system that resolves
CreateInput(p) ==
    /\ p.state = "present"
    /\ p.replication_rule_name # None /\ ~BlankName(p)
    /\ Addressed(rules0, p) = {}
    /\ p.rpo # None
    /\ p.new_name = None
    /\ p.remote_system # None
    /\ IF p.remote_system[1] \in IdFormat
       THEN \E s \in RemoteSystems : s.id = p.remote_system[1]
       ELSE \/ Cardinality(NameMatches(p)) = 1
            \/ Cardinality(NameMatches(p)) > 1 /\ Cardinality(AddressMatches(p)) = 1

\* the remote system such a request resolves to
ResolvedRemoteSystem(p) ==
    IF p.remote_system[1] \in IdFormat
    THEN {s \in RemoteSystems : s.id = p.remote_system[1]}
    ELSE IF Cardinality(NameMatches(p)) = 1 THEN NameMatches(p)
    ELSE AddressMatches(p)

\* C5: a state=present invocation with a valid name N that no rule has, rpo R, a
\* resolvable remote_system and no new_name issues at most one create call and no
\* other mutating call; it exits unless a backend call raises or is refused; and
\* when it exits it has issued one create call, reports changed=true, and both the
\* reported details and the rule then held by the backend have name N, rpo R and
\* the id of the resolved remote system.
C5_CreatePostcondition ==
    CreateInput(params)
        => /\ Cardinality(CallIndexes({"create_replication_rule"})) <= 1
           /\ CallIndexes({"modify_replication_rule",
                           "delete_replication_rule"}) = {}
           /\ (pc = "done" /\ ~Faulted /\ ~Refused400 /\ clusters # {}
                 => outcome = "exit")
           /\ outcome = "exit"
                 => /\ Cardinality(CallIndexes({"create_replication_rule"})) = 1
                    /\ changed = TRUE
                    /\ result # None
                    /\ result[1].name = params.replication_rule_name[1]
                    /\ result[1].rpo = params.rpo[1]
                    /\ \A s \in ResolvedRemoteSystem(params) :
                          result[1].remote_system_id = s.id
                    /\ \E r \in rules :
                          /\ r.id = result[1].id
                          /\ r.name = params.replication_rule_name[1]
                          /\ r.rpo = params.rpo[1]
                          /\ \A s \in ResolvedRemoteSystem(params) :
                                r.remote_system_id = s.id
                          /\ rules = rules0 \cup {r}

\* a rule created with rpo One_Hour for the remote system picked by its address
C5_Witness ==
    /\ CreateInput(params) /\ outcome = "exit" /\ changed
    /\ params.rpo = Some("One_Hour")
    /\ params.remote_system = Some("RS1")
    /\ result # None /\ result[1].rpo = "One_Hour" /\ result[1].remote_system_id = "r1"

\* the invocation is past the remote-system lookup
PastFetchRemoteSystem ==
    /\ pc \notin {"get_clusters", "fetch_remote_system"}
    /\ msg \notin {"no_cluster", "get_clusters_failed"}

\* C6: resolving remote_system by name. Unless a backend call raises: no match
\* fails as not found; one match resolves to it; several matches and no address
\* fail as ambiguous; several matches and an address resolve to the one system
\* the address keeps, and fail as not found when it keeps none or several. A
\* system among several of the same name is never taken without the address
\* singling it out.
C6_RemoteSystemResolution ==
    (PastFetchRemoteSystem /\ params.remote_system # None
        /\ name_or_id(params.remote_system[1]) = "NAME")
        => LET n == Cardinality(NameMatches(params))
               a == Cardinality(AddressMatches(params))
               address == params.remote_system_address
               resolved == remote_system_id # None
           IN  /\ (msg = "get_remote_system_failed" => Faulted)
               /\ (resolved => msg \notin {"remote_system_not_found",
                                           "remote_system_ambiguous"})
               /\ (n = 0 /\ ~Faulted => ~resolved /\ msg = "remote_system_not_found")
               /\ (n = 1 => (resolved \/ Faulted))
               /\ (n = 1 /\ resolved
                     => \A s \in NameMatches(params) : remote_system_id = Some(s.id))
               /\ (n > 1 /\ address = None /\ ~Faulted
                     => ~resolved /\ msg = "remote_system_ambiguous")
               /\ (n > 1 /\ address = None => ~resolved)
               /\ (n > 1 /\ address # None /\ a = 1
                     => /\ (resolved \/ Faulted)
                        /\ (resolved => \A s \in AddressMatches(params) :
                                            remote_system_id = Some(s.id)))
               /\ (n > 1 /\ address # None /\ a # 1
                     => /\ ~resolved
                        /\ (~Faulted => msg = "remote_system_not_found"))

\* of two systems named RS1, the one at the address given is resolved to
C6_Witness ==
    /\ pc = "get_rule"
    /\ params.remote_system = Some("RS1")
    /\ params.remote_system_address = Some("a1")
    /\ remote_system_id = Some("r1")
    /\ Len(calls) = 3

\* the backend calls the step now taken has added
NewCalls == SubSeq(calls', Len(calls) + 1, Len(calls'))

\* C7: when the rule lookup of perform_module_operation gets a 404 from the
\* backend, the lookup yields nothing and the invocation goes on to
\* reconciliation; when it gets any other error the invocation ends at once in
\* fail_json, no mutating call having been made and the rules unchanged.
C7_NotFoundTranslation ==
    [][(pc = "get_rule" /\ Len(calls') > Len(calls))
        => LET last == NewCalls[Len(NewCalls)]
           IN  /\ (last.res = "404"
                     => /\ pc' = "create"
                        /\ outcome' = "running"
                        /\ rep_rule_details' = None)
               /\ (last.res \in {"500", "NONE"}
                     => /\ pc' = "done"
                        /\ outcome' = "fail"
                        /\ msg' = "get_rule_failed"
                        /\ CallIndexes(MutatingOps)' = {}
                        /\ rules' = rules0)]_vars

\* the lookup by id got a 404 and the invocation is at the create block with no rule
C7_Witness ==
    /\ pc = "create"
    /\ calls # <<>>
    /\ calls[Len(calls)].op = "get_replication_rule_details"
    /\ calls[Len(calls)].res = "404"
    /\ rep_rule_details = None
    /\ params.replication_rule_id # None

RuleLookupOps == {"get_replication_rule_by_name", "get_replication_rule_details"}
RemoteSystemLookupOps == {"get_remote_system_by_name", "get_remote_system_details"}

\* C8: an invocation issues at most one mutating call (create, modify or
\* delete), and issues it only after the cluster lookup, then the remote-system
\* lookup when remote_system is given, then the rule lookup.
C8_AtMostOneMutatingCall ==
    /\ Cardinality(MutatingCalls) <= 1
    /\ \A i \in MutatingCalls :
        /\ calls[1].op = "get_cluster_list"
        /\ \E j \in 2..(i - 1) :
            /\ calls[j].op \in RuleLookupOps
            /\ \A k \in 1..(j - 1) : calls[k].op \notin MutatingOps \cup RuleLookupOps
            /\ (params.remote_system # None
                  => \E k \in 2..(j - 1) : calls[k].op \in RemoteSystemLookupOps)

\* a create, after the three lookups, and the invocation over with no other
\* mutating call
C8_Witness ==
    /\ outcome = "exit"
    /\ params.remote_system # None
    /\ \E i \in MutatingCalls : calls[i].op = "create_replication_rule" /\ i >= 4
    /\ Len(calls) >= 6

\* C9 as claimed: an invocation that ends in fail_json leaves the rules of the
\* backend as they were when it started.
C9_NoPartialApplication ==
    (pc = "done" /\ outcome = "fail") => rules = rules0

\* C10 as claimed: no create or modify call carries an alert_threshold outside
\* 0..1440.
C10_AlertThresholdInRange ==
    \A i \in CallIndexes({"create_replication_rule", "modify_replication_rule"}) :
        calls[i].alert # None
            => calls[i].alert[1] >= 0 /\ calls[i].alert[1] <= AlertThresholdMax

\* the fail_json messages of the create preconditions
InputErrors ==
    {"create_with_id", "invalid_name", "remote_system_required",
     "new_name_at_creation", "rpo_required"}

\* what a request must give for a rule to be created
CreateGate(p) ==
    /\ p.replication_rule_id = None
    /\ p.replication_rule_name # None /\ ~BlankName(p)
    /\ p.remote_system # None
    /\ p.rpo # None
    /\ p.new_name = None

\* C11: when no rule is found and state=present, a create call is issued only
\* for a request that addresses the rule by a name that is not blank, gives a
\* remote_system that resolved to an id, gives rpo and gives no new_name; a
\* request that misses one of these ends in fail_json without any create,
\* modify or delete call, with an input error unless a lookup failed first.
C11_CreateGating ==
    (params.state = "present" /\ Addressed(rules0, params) = {})
        => /\ (CallIndexes({"create_replication_rule"}) # {}
                 => CreateGate(params) /\ remote_system_id # None)
           /\ (~CreateGate(params)
                 => /\ MutatingCalls = {}
                    /\ rules = rules0
                    /\ outcome # "exit"
                    /\ pc \in {"get_clusters", "fetch_remote_system", "get_rule",
                               "create", "done"}
                    /\ (pc = "done" => msg \in LookupFailures \cup InputErrors)
                    /\ (msg = "get_rule_failed" => Faulted))

\* a request for a new rule without rpo, refused after the lookups
C11_Witness ==
    /\ pc = "done" /\ params.state = "present"
    /\ Addressed(rules0, params) = {}
    /\ params.rpo = None /\ params.new_name = None
    /\ params.remote_system # None /\ remote_system_id # None
    /\ msg = "rpo_required" /\ MutatingCalls = {}

\* the rule r as show_output reports it: with the name of its remote system
Projected(r) ==
    {[id |-> r.id,
      name |-> r.name,
      rpo |-> r.rpo,
      alert_threshold |-> r.alert_threshold,
      remote_system_id |-> r.remote_system_id,
      remote_system_name |-> s.name] : s \in {t \in RemoteSystems : t.id = r.remote_system_id}}

\* the details reported are those of the rule of id rep_rule_id as the backend
\* now holds it, with the name of its remote system
ReportsRefetched ==
    /\ result # None
    /\ rep_rule_id # None
    /\ \E r \in rules : r.id = rep_rule_id[1] /\ result[1] \in Projected(r)

\* C12 as claimed: every state=present invocation that exits, after a create, a
\* modify or no mutating call, reports the rule fetched again by id from the
\* backend, whatever the create or modify call returned, with remote_system_name
\* the name of the remote system of the rule's remote_system_id.
C12_ResultProjection ==
    (outcome = "exit" /\ params.state = "present") => ReportsRefetched

\* C12 where it holds: an invocation that exits after a create or no mutating
\* call reports the rule fetched again by id, and so does any invocation that
\* reports details at all.
C12_ProjectionUnlessModifyReturnsNothing ==
    (outcome = "exit" /\ params.state = "present"
        /\ (CallIndexes({"modify_replication_rule"}) = {} \/ result # None))
        => ReportsRefetched

\* the mutating calls of this invocation that returned without error
AppliedCalls == {i \in MutatingCalls : calls[i].res = "ok"}

\* C13: in an invocation that ends in exit_json, changed is true exactly when
\* one create, modify or delete call was issued and returned without error, no
\* other mutating call having been issued; and changed=false means no mutating
\* call was issued and the rules of the backend are as they were.
C13_ChangedIffOneMutatingCall ==
    outcome = "exit"
        => /\ (changed <=> Cardinality(AppliedCalls) = 1)
           /\ Cardinality(MutatingCalls) <= 1
           /\ MutatingCalls = AppliedCalls
           /\ (~changed => MutatingCalls = {} /\ rules = rules0)

\* a delete that the backend applied, reported as changed
C13_Witness ==
    /\ outcome = "exit" /\ changed /\ params.state = "absent"
    /\ \E i \in AppliedCalls : calls[i].op = "delete_replication_rule"
    /\ rules # rules0 /\ result = None

====
